---- MODULE Spec2Model ----
(***************************************************************************)
(* Model of the solid-jsx-oxc DOM transform: the entry point               *)
(* (src/lib.rs), the traversal driver (crates/dom/src/transform.rs), the   *)
(* native element lowering (crates/dom/src/element.rs) and the component   *)
(* lowering (crates/dom/src/component.rs).                                 *)
(*                                                                         *)
(* Strings that the code builds with format!/push_str are kept as          *)
(* sequences of pieces, so push_str is sequence concatenation.  Strings    *)
(* that the code inspects (starts_with, contains, slicing, case) are       *)
(* looked up in the character table Chars.                                 *)
(***************************************************************************)
EXTENDS Naturals, Sequences, FiniteSets, TLC

VARIABLES
    api,        \* which public entry point the embedder called
    source,     \* the parser's view of the source given to the call
    userOptions,\* the options value the caller passed
    pc,         \* position inside the current call
    program,    \* the Program handed to traverse_mut and then to Codegen
    options,    \* the TransformOptions the SolidTransform borrows
    context,    \* SolidTransform.context (BlockContext)
    pending,    \* expressions the traversal has still to enter, in order
    lowered,    \* the `let result` of every enter_expression of this call
    emitted,    \* what exit_program read from the context
    ret,        \* what the call returned
    runs        \* what each finished call of this session produced

vars == <<api, source, userOptions, pc, program, options, context, pending,
          lowered, emitted, ret, runs>>

-----------------------------------------------------------------------------
(* Bounds of the model *)

MaxAttrs == 2
MaxChildren == 3
MaxStmts == 2
MaxRuns == 2

-----------------------------------------------------------------------------
(* Option<T> and small sequence helpers *)

None == [some |-> FALSE]
Some(v) == [some |-> TRUE, v |-> v]

Contains(s, e) == \E i \in 1..Len(s) : s[i] = e

RECURSIVE Concat(_)
Concat(ss) == IF ss = <<>> THEN <<>> ELSE Head(ss) \o Concat(Tail(ss))

SeqsUpTo(S, n) == UNION {[1..k -> S] : k \in 0..n}

-----------------------------------------------------------------------------
(* Rust str operations, over the strings the model uses *)

Chars(s) ==
    CASE s = "div"       -> <<"d","i","v">>
      [] s = "span"      -> <<"s","p","a","n">>
      [] s = "input"     -> <<"i","n","p","u","t">>
      [] s = "svg"       -> <<"s","v","g">>
      [] s = "my-el"     -> <<"m","y","-","e","l">>
      [] s = "Button"    -> <<"B","u","t","t","o","n">>
      [] s = "For"       -> <<"F","o","r">>
      [] s = "class"     -> <<"c","l","a","s","s">>
      [] s = "className" -> <<"c","l","a","s","s","N","a","m","e">>
      [] s = "disabled"  -> <<"d","i","s","a","b","l","e","d">>
      [] s = "onClick"   -> <<"o","n","C","l","i","c","k">>
      [] s = "onScroll"  -> <<"o","n","S","c","r","o","l","l">>
      [] s = "click"     -> <<"c","l","i","c","k">>
      [] s = "scroll"    -> <<"s","c","r","o","l","l">>
      [] s = "ref"       -> <<"r","e","f">>
      [] s = "use:foo"   -> <<"u","s","e",":","f","o","o">>
      [] s = "foo"       -> <<"f","o","o">>
      [] s = "each"      -> <<"e","a","c","h">>
      [] s = "on"        -> <<"o","n">>
      [] s = "use:"      -> <<"u","s","e",":">>

Strings == {"div", "span", "input", "svg", "my-el", "Button", "For", "class",
            "className", "disabled", "onClick", "onScroll", "click", "scroll",
            "ref", "use:foo", "foo", "each", "on", "use:"}

FromChars(cs) == CHOOSE s \in Strings : Chars(s) = cs

starts_with(s, prefix) ==
    /\ Len(Chars(prefix)) <= Len(Chars(s))
    /\ SubSeq(Chars(s), 1, Len(Chars(prefix))) = Chars(prefix)

contains_char(s, c) == Contains(Chars(s), c)

SliceFrom(s, n) == FromChars(SubSeq(Chars(s), n + 1, Len(Chars(s))))

UpperCase == {"B", "C", "F", "N", "S"}

to_ascii_lowercase(c) ==
    CASE c = "B" -> "b"
      [] c = "C" -> "c"
      [] c = "F" -> "f"
      [] c = "N" -> "n"
      [] c = "S" -> "s"
      [] OTHER   -> c

to_lowercase(cs) == [i \in 1..Len(cs) |-> to_ascii_lowercase(cs[i])]

-----------------------------------------------------------------------------
(* common::constants and common::check *)

VOID_ELEMENTS == {"area", "base", "br", "col", "embed", "hr", "img", "input",
                  "link", "meta", "param", "source", "track", "wbr"}

SVG_ELEMENTS == {"svg", "path", "circle", "g", "use"}

DELEGATED_EVENTS ==
    {"beforeinput", "click", "dblclick", "contextmenu", "focusin", "focusout",
     "input", "keydown", "keyup", "mousedown", "mousemove", "mouseout",
     "mouseover", "mouseup", "pointerdown", "pointermove", "pointerout",
     "pointerover", "pointerup", "touchend", "touchmove", "touchstart"}

BUILT_INS == {"For", "Show", "Switch", "Match", "Index", "Suspense", "Portal",
              "Dynamic", "ErrorBoundary"}

\* ALIASES.get(key).copied().unwrap_or(key)
ALIASES_get(key) ==
    CASE key = "className" -> "class"
      [] key = "htmlFor"   -> "for"
      [] OTHER             -> key

is_svg_element(tag) == tag \in SVG_ELEMENTS

is_built_in(tag) == tag \in BUILT_INS

is_component(tag) ==
    \/ Chars(tag)[1] \in UpperCase
    \/ contains_char(tag, ".")

\* static iff a literal or an identifier bound to a constant
is_dynamic(expr) ==
    ~ \/ expr.type \in {"StringLiteral", "NumericLiteral", "BooleanLiteral"}
      \/ expr.type = "Identifier"

\* strips a leading "on" (case-insensitive) and lowercases the rest
to_event_name(key) ==
    LET cs == Chars(key)
        stripped == IF Len(cs) >= 2 /\ to_lowercase(SubSeq(cs, 1, 2)) = Chars("on")
                    THEN SubSeq(cs, 3, Len(cs))
                    ELSE cs
    IN  FromChars(to_lowercase(stripped))

\* escape_html(text, is_attr): &, <, > always, " in attribute position
escape_char(c, is_attr) ==
    CASE c = "&" -> <<"&amp;">>
      [] c = "<" -> <<"&lt;">>
      [] c = ">" -> <<"&gt;">>
      [] c = "\"" /\ is_attr -> <<"&quot;">>
      [] OTHER -> <<c>>

escape_html(text, is_attr) ==
    Concat([i \in 1..Len(text) |-> escape_char(text[i], is_attr)])

Whitespace == {" ", "\n"}

RECURSIVE collapse_whitespace(_)
collapse_whitespace(text) ==
    IF text = <<>> THEN <<>>
    ELSE IF Head(text) \in Whitespace
         THEN IF Len(text) > 1 /\ text[2] \in Whitespace
              THEN collapse_whitespace(Tail(text))
              ELSE <<" ">> \o collapse_whitespace(Tail(text))
         ELSE <<Head(text)>> \o collapse_whitespace(Tail(text))

\* runs of whitespace become one space; whitespace spanning a line break is dropped
trim_whitespace(text) ==
    IF (\A i \in 1..Len(text) : text[i] \in Whitespace) /\ Contains(text, "\n")
    THEN <<>>
    ELSE collapse_whitespace(text)

-----------------------------------------------------------------------------
(* The AST the parser yields (oxc_ast), as far as the transform reads it *)

Identifier(name) == [type |-> "Identifier", name |-> name]
CallExpression(callee) == [type |-> "CallExpression", callee |-> Identifier(callee)]
StringLiteral(value) == [type |-> "StringLiteral", value |-> value]
ArrowFunctionExpression(body) == [type |-> "ArrowFunctionExpression", body |-> body]
JSXEmptyExpression == [type |-> "JSXEmptyExpression"]

JSXText(value) == [type |-> "JSXText", value |-> value]
JSXExpressionContainer(expression) ==
    [type |-> "JSXExpressionContainer", expression |-> expression]
JSXSpreadChild(expression) == [type |-> "JSXSpreadChild", expression |-> expression]
JSXAttribute(name, value) == [type |-> "JSXAttribute", name |-> name, value |-> value]
JSXSpreadAttribute(argument) == [type |-> "JSXSpreadAttribute", argument |-> argument]
JSXElement(name, attributes, children) ==
    [type |-> "JSXElement", name |-> name, attributes |-> attributes,
     children |-> children]
JSXFragment(children) == [type |-> "JSXFragment", children |-> children]

\* container.expression.as_expression()
as_expression(container) ==
    IF container.expression.type = "JSXEmptyExpression"
    THEN None
    ELSE Some(container.expression)

get_tag_name(element) == element.name

-----------------------------------------------------------------------------
(* crate::ir *)

BlockContext_new ==
    [helpers |-> <<>>, delegates |-> <<>>, templates |-> <<>>, counter |-> 0]

register_helper(ctx, name) ==
    IF Contains(ctx.helpers, name) THEN ctx
    ELSE [ctx EXCEPT !.helpers = Append(@, name)]

register_delegate(ctx, event) ==
    IF Contains(ctx.delegates, event) THEN ctx
    ELSE [ctx EXCEPT !.delegates = Append(@, event)]

\* returns the fresh identifier and the context with the counter advanced
generate_uid(ctx, prefix) ==
    [id |-> prefix \o ToString(ctx.counter + 1),
     context |-> [ctx EXCEPT !.counter = @ + 1]]

TransformResult_default ==
    [id |-> None, template |-> <<>>, template_with_closing_tags |-> <<>>,
     tag_name |-> None, is_svg |-> FALSE, has_custom_element |-> FALSE,
     declarations |-> <<>>, exprs |-> <<>>, dynamics |-> <<>>, text |-> FALSE]

Expr(code) == [code |-> code]

DynamicBinding(elem, key, value, is_svg, is_ce, tag_name) ==
    [elem |-> elem, key |-> key, value |-> value, is_svg |-> is_svg,
     is_ce |-> is_ce, tag_name |-> tag_name]

TransformInfo_default ==
    [top_level |-> FALSE, last_element |-> FALSE, skip_id |-> FALSE,
     component_child |-> FALSE, fragment_child |-> FALSE]

\* The lowering functions take `result: &mut TransformResult` and
\* `context: &BlockContext` (interior mutability): both are threaded as one
\* value st = [result, context].
St(result_, context_) == [result |-> result_, context |-> context_]

push_expr(st, code) ==
    [st EXCEPT !.result.exprs = Append(@, Expr(code))]

push_template(st, pieces) ==
    [st EXCEPT !.result.template = @ \o pieces]

with_helper(st, name) ==
    [st EXCEPT !.context = register_helper(@, name)]

-----------------------------------------------------------------------------
(* crates/dom/src/element.rs *)

transform_ref(attr, elem_id, st) ==
    LET st1 == with_helper(st, "use")
    IN  IF attr.value.some /\ attr.value.v.type = "JSXExpressionContainer"
        THEN push_expr(st1, <<"_use(/* ref */, ", elem_id, ")">>)
        ELSE st1

\* transform_event with the delegate_events option left out of the test
transform_event_unconditional(attr, key, elem_id, st, opts) ==
    LET event_name == to_event_name(key)
        should_delegate ==
            \/ event_name \in DELEGATED_EVENTS
            \/ event_name \in opts.delegated_events
    IN  IF should_delegate
        THEN push_expr([st EXCEPT !.context = register_delegate(@, event_name)],
                       <<elem_id, ".$$", event_name, "  = /* handler */">>)
        ELSE push_expr(with_helper(st, "addEventListener"),
                       <<"_addEventListener(", elem_id, ", \"", event_name,
                         "\", /* handler */)">>)

transform_event(attr, key, elem_id, st, opts) ==
    LET event_name == to_event_name(key)
        should_delegate ==
            /\ opts.delegate_events
            /\ \/ event_name \in DELEGATED_EVENTS
               \/ event_name \in opts.delegated_events
    IN  IF should_delegate
        THEN push_expr([st EXCEPT !.context = register_delegate(@, event_name)],
                       <<elem_id, ".$$", event_name, "  = /* handler */">>)
        ELSE push_expr(with_helper(st, "addEventListener"),
                       <<"_addEventListener(", elem_id, ", \"", event_name,
                         "\", /* handler */)">>)

transform_directive(attr, key, elem_id, st) ==
    LET directive_name == SliceFrom(key, 4)
    IN  push_expr(with_helper(st, "use"),
                  <<"_use(", directive_name, ", ", elem_id,
                    ", () => /* directive value */)">>)

\* transform_regular_attribute with every expression taken as dynamic
transform_regular_attribute_all_dynamic(attr, key, elem_id, st) ==
    IF ~attr.value.some
    THEN push_template(st, <<" ", key>>)
    ELSE IF attr.value.v.type = "StringLiteral"
    THEN push_template(st, <<" ", ALIASES_get(key), "=\"">>
                           \o escape_html(attr.value.v.value, TRUE) \o <<"\"">>)
    ELSE IF attr.value.v.type = "JSXExpressionContainer"
    THEN IF as_expression(attr.value.v).some
         THEN [st EXCEPT !.result.dynamics =
                  Append(@, DynamicBinding(
                      elem_id, key, "/* dynamic expr */",
                      st.result.is_svg, st.result.has_custom_element,
                      IF st.result.tag_name.some THEN st.result.tag_name.v
                      ELSE ""))]
         ELSE st
    ELSE st

\* the `match &attr.value` of transform_attribute
transform_regular_attribute(attr, key, elem_id, st) ==
    IF ~attr.value.some
    THEN push_template(st, <<" ", key>>)
    ELSE IF attr.value.v.type = "StringLiteral"
    THEN push_template(st, <<" ", ALIASES_get(key), "=\"">>
                           \o escape_html(attr.value.v.value, TRUE) \o <<"\"">>)
    ELSE IF attr.value.v.type = "JSXExpressionContainer"
    THEN IF as_expression(attr.value.v).some
         THEN IF is_dynamic(as_expression(attr.value.v).v)
              THEN [st EXCEPT !.result.dynamics =
                       Append(@, DynamicBinding(
                           elem_id, key, "/* dynamic expr */",
                           st.result.is_svg, st.result.has_custom_element,
                           IF st.result.tag_name.some THEN st.result.tag_name.v
                           ELSE ""))]
              ELSE push_template(st, <<" ", ALIASES_get(key),
                                       "=\"/* static expr */\"">>)
         ELSE st
    ELSE st

transform_attribute(attr, elem_id, st, opts) ==
    LET key == attr.name
    IN  IF key = "ref" THEN transform_ref(attr, elem_id, st)
        ELSE IF starts_with(key, "on")
        THEN transform_event(attr, key, elem_id, st, opts)
        ELSE IF starts_with(key, "use:")
        THEN transform_directive(attr, key, elem_id, st)
        ELSE transform_regular_attribute(attr, key, elem_id, st)

bool_to_string(b) == IF b THEN "true" ELSE "false"

transform_spread_attribute(element, elem_id, st) ==
    push_expr(with_helper(st, "spread"),
              <<"_spread(", elem_id, ", /* spread expr */, ",
                bool_to_string(st.result.is_svg), ", ",
                bool_to_string(element.children # <<>>), ")">>)

RECURSIVE transform_attributes_from(_, _, _, _, _)
transform_attributes_from(element, i, elem_id, st, opts) ==
    IF i > Len(element.attributes) THEN st
    ELSE LET attr == element.attributes[i]
             st1 == IF attr.type = "JSXAttribute"
                    THEN transform_attribute(attr, elem_id, st, opts)
                    ELSE transform_spread_attribute(element, elem_id, st)
         IN  transform_attributes_from(element, i + 1, elem_id, st1, opts)

\* elem_id taken from a fresh identifier whether or not the result has an id
elem_id_of_always_fresh(st) == generate_uid(st.context, "el$")

\* result.id.clone().unwrap_or_else(|| context.generate_uid("el$"))
elem_id_of(st) ==
    IF st.result.id.some
    THEN [id |-> st.result.id.v, context |-> st.context]
    ELSE generate_uid(st.context, "el$")

transform_attributes(element, st, opts) ==
    LET e == elem_id_of(st)
    IN  transform_attributes_from(element, 1, e.id,
                                  [st EXCEPT !.context = e.context], opts)

\* merge_child with the child lowered on a copy of the Block Context: what
\* the child registered and the identifiers it took are not kept
merge_child_own_counter(st, child_st) ==
    [result |-> [st.result EXCEPT
                    !.template = @ \o child_st.result.template,
                    !.declarations = @ \o child_st.result.declarations,
                    !.exprs = @ \o child_st.result.exprs,
                    !.dynamics = @ \o child_st.result.dynamics],
     context |-> st.context]

\* the child's template, declarations, exprs and dynamics are merged
merge_child(st, child_st) ==
    [result |-> [st.result EXCEPT
                    !.template = @ \o child_st.result.template,
                    !.declarations = @ \o child_st.result.declarations,
                    !.exprs = @ \o child_st.result.exprs,
                    !.dynamics = @ \o child_st.result.dynamics],
     context |-> child_st.context]

transform_child_text(text, st) ==
    LET content == trim_whitespace(text.value)
    IN  IF content # <<>>
        THEN push_template(st, escape_html(content, FALSE))
        ELSE st

transform_child_expression(container, st) ==
    LET st1 == with_helper(st, "insert")
    IN  IF st1.result.id.some
        THEN push_expr(st1, <<"_insert(", st1.result.id.v, ", /* child expr */)">>)
        ELSE st1

RECURSIVE transform_element(_, _, _, _, _)
RECURSIVE transform_children_from(_, _, _, _)

transform_children_from(element, i, st, opts) ==
    IF i > Len(element.children) THEN st
    ELSE LET child == element.children[i]
             st1 ==
                 CASE child.type = "JSXText" -> transform_child_text(child, st)
                   [] child.type = "JSXElement" ->
                        merge_child(st, transform_element(
                            child, get_tag_name(child), TransformInfo_default,
                            st.context, opts))
                   [] child.type = "JSXExpressionContainer" ->
                        transform_child_expression(child, st)
                   [] OTHER -> st
         IN  transform_children_from(element, i + 1, st1, opts)

transform_children(element, st, opts) ==
    transform_children_from(element, 1, st, opts)

\* appended to template and to template_with_closing_tags alike
push_both(st, pieces) ==
    [st EXCEPT !.result.template = @ \o pieces,
               !.result.template_with_closing_tags = @ \o pieces]

transform_element(element, tag_name, info, ctx, opts) ==
    LET is_svg == is_svg_element(tag_name)
        is_void == tag_name \in VOID_ELEMENTS
        is_custom_element == contains_char(tag_name, "-")
        r0 == [TransformResult_default EXCEPT
                  !.tag_name = Some(tag_name),
                  !.is_svg = is_svg,
                  !.has_custom_element = is_custom_element]
        st0 == IF ~info.skip_id
               THEN LET u == generate_uid(ctx, "el$")
                    IN  St([r0 EXCEPT !.id = Some(u.id)], u.context)
               ELSE St(r0, ctx)
        st1 == push_both(st0, <<"<", tag_name>>)
        st2 == transform_attributes(element, st1, opts)
        st3 == push_both(st2, <<">">>)
    IN  IF ~is_void
        THEN push_both(transform_children(element, st3, opts),
                       <<"</", tag_name, ">">>)
        ELSE st3

-----------------------------------------------------------------------------
(* crates/dom/src/component.rs *)

\* collect::<Vec<_>>().join(", ")
RECURSIVE join(_, _)
join(items, sep) ==
    IF items = <<>> THEN <<>>
    ELSE IF Len(items) = 1 THEN Head(items)
    ELSE Head(items) \o <<sep>> \o join(Tail(items), sep)

get_children_expr(element) ==
    IF Len(element.children) = 1
    THEN "/* single child */"
    ELSE "[/* children */]"

\* one pass of the attribute loop of build_props over acc =
\* [static_props, dynamic_props, has_spread]
build_props_attr(attr, acc) ==
    IF attr.type = "JSXSpreadAttribute"
    THEN [acc EXCEPT !.has_spread = TRUE]
    ELSE LET key == attr.name
         IN  IF ~attr.value.some
             THEN [acc EXCEPT !.static_props = Append(@, <<key, ": true">>)]
             ELSE IF attr.value.v.type = "StringLiteral"
             THEN [acc EXCEPT !.static_props =
                      Append(@, <<key, ": \"">> \o attr.value.v.value \o <<"\"">>)]
             ELSE IF attr.value.v.type = "JSXExpressionContainer"
             THEN IF as_expression(attr.value.v).some
                  THEN IF is_dynamic(as_expression(attr.value.v).v)
                       THEN [acc EXCEPT !.dynamic_props =
                                Append(@, <<"get ", key,
                                            "() { return /* expr */; }">>)]
                       ELSE [acc EXCEPT !.static_props =
                                Append(@, <<key, ": /* expr */">>)]
                  ELSE acc
             ELSE acc

RECURSIVE build_props_from(_, _, _)
build_props_from(element, i, acc) ==
    IF i > Len(element.attributes) THEN acc
    ELSE build_props_from(element, i + 1,
                          build_props_attr(element.attributes[i], acc))

\* returns the props string and the context
build_props(element, ctx, opts) ==
    LET acc0 == build_props_from(element, 1,
                    [static_props |-> <<>>, dynamic_props |-> <<>>,
                     has_spread |-> FALSE])
        acc == IF element.children # <<>> /\ get_children_expr(element) # ""
               THEN [acc0 EXCEPT !.dynamic_props =
                        Append(@, <<"get children() { return ",
                                    get_children_expr(element), "; }">>)]
               ELSE acc0
        all == join(acc.static_props \o acc.dynamic_props, ", ")
    IN  IF acc.has_spread
        THEN [props |-> <<"_mergeProps(/* spread */, { ">> \o all \o <<" })">>,
              context |-> register_helper(ctx, "mergeProps")]
        ELSE IF acc.dynamic_props = <<>> /\ acc.static_props = <<>>
        THEN [props |-> <<"{}">>, context |-> ctx]
        ELSE [props |-> <<"{ ">> \o all \o <<" }">>, context |-> ctx]

\* the fixed prop shape each built-in is lowered to
builtin_props(tag_name) ==
    CASE tag_name = "For" -> "{ each: /* each */, children: /* callback */ }"
      [] tag_name = "Show" ->
            "{ when: /* when */, fallback: /* fallback */, children: /* children */ }"
      [] tag_name = "Switch" -> "{ children: /* Match children */ }"
      [] tag_name = "Match" -> "{ when: /* when */, children: /* children */ }"
      [] tag_name = "Index" -> "{ each: /* each */, children: /* callback */ }"
      [] tag_name = "Suspense" ->
            "{ fallback: /* fallback */, children: /* children */ }"
      [] tag_name = "Portal" -> "{ mount: /* mount */, children: /* children */ }"
      [] tag_name = "Dynamic" -> "{ component: /* component */, .../* props */ }"
      [] tag_name = "ErrorBoundary" ->
            "{ fallback: /* fallback */, children: /* children */ }"

\* transform_for, transform_show, ... : each registers createComponent and its
\* own helper and pushes one createComponent call
transform_builtin(element, tag_name, ctx, opts) ==
    LET st0 == St(TransformResult_default, ctx)
    IN  push_expr(with_helper(with_helper(st0, "createComponent"), tag_name),
                  <<"_createComponent(", "_" \o tag_name, ", ",
                    builtin_props(tag_name), ")">>)

transform_component(element, tag_name, ctx, opts) ==
    IF is_built_in(tag_name)
    THEN transform_builtin(element, tag_name, ctx, opts)
    ELSE LET ctx1 == register_helper(ctx, "createComponent")
             p == build_props(element, ctx1, opts)
         IN  push_expr(St(TransformResult_default, p.context),
                       <<"_createComponent(", tag_name, ", ">> \o p.props \o <<")">>)

-----------------------------------------------------------------------------
(* crates/dom/src/transform.rs: SolidTransform *)

transform_jsx_element(element, info, ctx, opts) ==
    LET tag_name == get_tag_name(element)
    IN  IF is_component(tag_name)
        THEN transform_component(element, tag_name, ctx, opts)
        ELSE transform_element(element, tag_name, info, ctx, opts)

transform_text(text, ctx) ==
    LET content == trim_whitespace(text.value)
    IN  IF content = <<>> THEN None
        ELSE Some(St([TransformResult_default EXCEPT
                         !.template = escape_html(content, FALSE),
                         !.text = TRUE], ctx))

transform_expression_container(container, info, ctx) ==
    IF as_expression(container).some
    THEN IF is_dynamic(as_expression(container).v)
         THEN Some(push_expr(St(TransformResult_default, ctx),
                             <<"() => /* expr */">>))
         ELSE Some(push_expr(St(TransformResult_default, ctx),
                             <<"/* static expr */">>))
    ELSE None

RECURSIVE transform_fragment_from(_, _, _, _, _)

\* transform_node: the Option<TransformResult> with the context after it
transform_node(node, info, ctx, opts) ==
    CASE node.type = "JSXElement" ->
            Some(transform_jsx_element(node, info, ctx, opts))
      [] node.type = "JSXFragment" ->
            Some(transform_fragment_from(node, 1, info,
                                         St(TransformResult_default, ctx), opts))
      [] node.type = "JSXText" -> transform_text(node, ctx)
      [] node.type = "JSXExpressionContainer" ->
            transform_expression_container(node, info, ctx)
      [] node.type = "JSXSpreadChild" ->
            Some(push_expr(St(TransformResult_default, ctx),
                           <<"/* spread child */">>))

transform_fragment_from(fragment, i, info, st, opts) ==
    IF i > Len(fragment.children) THEN st
    ELSE LET child_result == transform_node(fragment.children[i], info,
                                            st.context, opts)
             st1 == IF child_result.some
                    THEN merge_child(st, child_result.v)
                    ELSE st
         IN  transform_fragment_from(fragment, i + 1, info, st1, opts)

transform_fragment(fragment, info, ctx, opts) ==
    transform_fragment_from(fragment, 1, info, St(TransformResult_default, ctx), opts)

\* a transformer that keeps the Block Context of the call before
SolidTransform_new_shared_context(opts) == [options |-> opts, context |-> context]

SolidTransform_new(opts) == [options |-> opts, context |-> BlockContext_new]

-----------------------------------------------------------------------------
(* The walk of traverse_mut: the Expression nodes below a node, in visiting *)
(* order.  JSX children that are elements or fragments are not Expression   *)
(* nodes themselves; the expressions inside them are.                       *)

RECURSIVE ExpressionsIn(_)
RECURSIVE ExpressionsInAll(_)

ExpressionsInAll(nodes) ==
    IF nodes = <<>> THEN <<>>
    ELSE ExpressionsIn(Head(nodes)) \o ExpressionsInAll(Tail(nodes))

\* the Expression nodes directly reachable from a JSX part or an attribute
ExpressionsIn(node) ==
    CASE node.type = "JSXText" -> <<>>
      [] node.type = "JSXElement" ->
            ExpressionsInAll(node.attributes) \o ExpressionsInAll(node.children)
      [] node.type = "JSXFragment" -> ExpressionsInAll(node.children)
      [] node.type = "JSXExpressionContainer" ->
            IF as_expression(node).some THEN <<node.expression>> ELSE <<>>
      [] node.type = "JSXSpreadChild" -> <<node.expression>>
      [] node.type = "JSXSpreadAttribute" -> <<node.argument>>
      [] node.type = "JSXAttribute" ->
            IF ~node.value.some \/ node.value.v.type = "StringLiteral" THEN <<>>
            ELSE ExpressionsIn(node.value.v)
      [] OTHER -> <<>>

\* the children of an Expression node that the walk enters next
SubExpressions(expr) ==
    CASE expr.type \in {"JSXElement", "JSXFragment"} -> ExpressionsIn(expr)
      [] expr.type = "CallExpression" -> <<expr.callee>>
      [] expr.type = "ArrowFunctionExpression" -> <<expr.body>>
      [] OTHER -> <<>>

-----------------------------------------------------------------------------
(* src/lib.rs and its collaborators (parser, code generator) *)

TransformOptions(delegate_events, delegated_events, source_map) ==
    [delegate_events |-> delegate_events, delegated_events |-> delegated_events,
     source_map |-> source_map]

solid_defaults == TransformOptions(TRUE, {}, FALSE)

\* Parser::parse: a panicked parse yields an empty program; recoverable
\* errors are reported beside the program
Parser_parse(src) ==
    [program |-> IF src.error = "panicked" THEN <<>> ELSE src.statements,
     errors |-> IF src.error = "none" THEN <<>> ELSE <<"parse error">>,
     panicked |-> src.error = "panicked"]

RECURSIVE print_node(_)
RECURSIVE print_all(_)

print_all(nodes) ==
    IF nodes = <<>> THEN <<>>
    ELSE print_node(Head(nodes)) \o print_all(Tail(nodes))

print_node(node) ==
    CASE node.type = "JSXElement" ->
            <<"<", node.name>> \o print_all(node.attributes) \o <<">">>
            \o print_all(node.children) \o <<"</", node.name, ">">>
      [] node.type = "JSXFragment" ->
            <<"<>">> \o print_all(node.children) \o <<"</>">>
      [] node.type = "JSXText" -> node.value
      [] node.type = "JSXExpressionContainer" ->
            <<"{">> \o print_node(node.expression) \o <<"}">>
      [] node.type = "JSXSpreadChild" ->
            <<"{...">> \o print_node(node.expression) \o <<"}">>
      [] node.type = "JSXSpreadAttribute" ->
            <<" {...">> \o print_node(node.argument) \o <<"}">>
      [] node.type = "JSXAttribute" ->
            <<" ", node.name>> \o
            (IF node.value.some THEN <<"=">> \o print_node(node.value.v) ELSE <<>>)
      [] node.type = "StringLiteral" -> <<"\"">> \o node.value \o <<"\"">>
      [] node.type = "Identifier" -> <<node.name>>
      [] node.type = "CallExpression" -> print_node(node.callee) \o <<"()">>
      [] node.type = "ArrowFunctionExpression" ->
            <<"(item) => ">> \o print_node(node.body)
      [] OTHER -> <<>>

\* Codegen::build: every statement of the program, printed
Codegen_build(prog, source_map_path) ==
    [code |-> Concat([i \in 1..Len(prog) |-> print_node(prog[i]) \o <<";\n">>]),
     map |-> source_map_path]

-----------------------------------------------------------------------------
(* The sources and options a call is given *)

Dyn(callee) == Some(JSXExpressionContainer(CallExpression(callee)))
Static(name) == Some(JSXExpressionContainer(Identifier(name)))

EventAttrs ==
    {JSXAttribute("onClick", Static("handler")),
     JSXAttribute("onScroll", Static("handler"))}

AttrPool ==
    {JSXAttribute("class", Some(StringLiteral(<<"hello">>))),
     JSXAttribute("className", Some(StringLiteral(<<"a", "\"", "b">>))),
     JSXAttribute("class", Dyn("style")),
     JSXAttribute("className", Static("cls")),
     JSXAttribute("disabled", None),
     JSXAttribute("onClick", Static("handler")),
     JSXAttribute("ref", Static("myRef")),
     JSXAttribute("ref", None),
     JSXAttribute("use:foo", Dyn("value")),
     JSXSpreadAttribute(Identifier("props"))}

NativeTags == {"div", "input", "svg", "my-el"}

ComponentTags == {"Button", "For"}

PropPool ==
    {JSXAttribute("class", Some(StringLiteral(<<"hello">>))),
     JSXAttribute("class", Dyn("style")),
     JSXAttribute("onClick", Static("handler")),
     JSXAttribute("disabled", None),
     JSXSpreadAttribute(Identifier("props"))}

DynChild == JSXExpressionContainer(CallExpression("count"))

Callback ==
    JSXExpressionContainer(ArrowFunctionExpression(
        JSXElement("div", <<>>, <<JSXExpressionContainer(Identifier("item"))>>)))

ChildPool ==
    {JSXText(<<"world">>),
     JSXText(<<" ", "\n", " ">>),
     DynChild,
     Callback,
     JSXElement("span", <<JSXAttribute("class", Dyn("style")),
                          JSXAttribute("disabled", None)>>,
                <<JSXText(<<"a", "<", "b">>)>>),
     JSXElement("Button", <<JSXAttribute("onClick", Static("handler"))>>, <<>>)}

TopLevelPool ==
    {JSXElement("div", <<JSXAttribute("class", Some(StringLiteral(<<"hello">>)))>>,
                <<JSXText(<<"world">>)>>),
     JSXElement("div", <<JSXAttribute("class", Dyn("style"))>>,
                <<JSXText(<<"content">>)>>),
     JSXElement("Button", <<JSXAttribute("onClick", Static("handler"))>>,
                <<JSXText(<<"Click me">>)>>),
     JSXElement("For", <<JSXAttribute("each", Static("items"))>>, <<Callback>>),
     JSXFragment(<<JSXText(<<"world">>), DynChild,
                   JSXElement("input", <<JSXAttribute("disabled", None)>>, <<>>),
                   JSXSpreadChild(Identifier("items"))>>),
     CallExpression("render")}

OptionValues ==
    {TransformOptions(d, u, FALSE) : d \in BOOLEAN, u \in {{}, {"scroll"}}}

Source(statements, error) == [statements |-> statements, error |-> error]

\* one native element, attributes varied
AttributeSources ==
    {Source(<<JSXElement(t, a, <<>>)>>, "none") :
        t \in NativeTags, a \in SeqsUpTo(AttrPool, MaxAttrs)}

\* one component, props varied
ComponentSources ==
    {Source(<<JSXElement(t, a, c)>>, "none") :
        t \in ComponentTags, a \in SeqsUpTo(PropPool, MaxAttrs),
        c \in {<<>>, <<JSXText(<<"Click me">>)>>}}

\* one element with event attributes, under every option value
EventSources ==
    {Source(<<JSXElement("div", a, <<>>)>>, "none") :
        a \in SeqsUpTo(EventAttrs \cup {JSXAttribute("class", Dyn("style"))},
                       MaxAttrs)}

\* one element, children varied
ChildSources ==
    {Source(<<JSXElement(t, <<>>, c)>>, "none") :
        t \in {"div", "input"}, c \in SeqsUpTo(ChildPool, MaxChildren)}

\* programs of several statements, and what the parser makes of them
ProgramSources ==
    {Source(s, e) : s \in SeqsUpTo(TopLevelPool, MaxStmts),
                    e \in {"none", "recoverable", "panicked"}}

EventCalls ==
    /\ source \in EventSources
    /\ \/ api = "transform" /\ userOptions \in {None} \cup {Some(o) : o \in OptionValues}
       \/ api = "SolidTransform" /\ userOptions \in {Some(o) : o \in OptionValues}

ProgramCalls ==
    /\ source \in ProgramSources
    /\ \/ api = "transform"
          /\ userOptions \in {None, Some(TransformOptions(TRUE, {}, TRUE))}
       \/ api = "SolidTransform" /\ userOptions = Some(solid_defaults)

ElementCalls ==
    /\ source \in AttributeSources \cup ComponentSources \cup ChildSources
    /\ api = "transform"
    /\ userOptions = None

Idle ==
    /\ pc = "idle"
    /\ program = <<>>
    /\ options = solid_defaults
    /\ context = BlockContext_new
    /\ pending = <<>>
    /\ lowered = <<>>
    /\ emitted = None
    /\ ret = None
    /\ runs = <<>>

Init == (ElementCalls \/ EventCalls \/ ProgramCalls) /\ Idle

\* a session of several calls on the same source with the same options
InitSession == (EventCalls \/ ProgramCalls) /\ Idle

-----------------------------------------------------------------------------
(* The calls *)

\* transform(source, options) -> transform_internal(source, filename, source_map),
\* up to the start of the walk
Transform ==
    /\ api = "transform"
    /\ pc = "idle"
    /\ LET parsed == Parser_parse(source)
           transformer == SolidTransform_new(solid_defaults)
       IN  /\ program' = parsed.program
           /\ options' = transformer.options
           /\ context' = transformer.context
           /\ pending' = parsed.program
    /\ ret' = None
    /\ lowered' = <<>>
    /\ emitted' = None
    /\ pc' = "traverse"
    /\ UNCHANGED <<api, source, userOptions, runs>>

\* an embedder of the dom crate: SolidTransform::new(allocator, &options)
\* .transform(&mut program) on a program it parsed itself
TransformDirect ==
    /\ api = "SolidTransform"
    /\ pc = "idle"
    /\ userOptions.some
    /\ LET parsed == Parser_parse(source)
           transformer == SolidTransform_new(userOptions.v)
       IN  /\ program' = parsed.program
           /\ options' = transformer.options
           /\ context' = transformer.context
           /\ pending' = parsed.program
    /\ ret' = None
    /\ lowered' = <<>>
    /\ emitted' = None
    /\ pc' = "traverse"
    /\ UNCHANGED <<api, source, userOptions, runs>>

\* enter_expression, Expression::JSXElement arm; the node is left in place
EnterJSXElement ==
    /\ pc = "traverse"
    /\ pending # <<>>
    /\ Head(pending).type = "JSXElement"
    /\ LET node == Head(pending)
           st == transform_jsx_element(
                     node,
                     [TransformInfo_default EXCEPT !.top_level = TRUE,
                                                   !.last_element = TRUE],
                     context, options)
       IN  /\ context' = st.context
           /\ lowered' = Append(lowered, [node |-> node, result |-> st.result])
           /\ pending' = SubExpressions(node) \o Tail(pending)
    /\ UNCHANGED <<api, source, userOptions, pc, program, options, emitted, ret, runs>>

\* enter_expression, Expression::JSXFragment arm
EnterJSXFragment ==
    /\ pc = "traverse"
    /\ pending # <<>>
    /\ Head(pending).type = "JSXFragment"
    /\ LET node == Head(pending)
           st == transform_fragment(
                     node, [TransformInfo_default EXCEPT !.top_level = TRUE],
                     context, options)
       IN  /\ context' = st.context
           /\ lowered' = Append(lowered, [node |-> node, result |-> st.result])
           /\ pending' = SubExpressions(node) \o Tail(pending)
    /\ UNCHANGED <<api, source, userOptions, pc, program, options, emitted, ret, runs>>

\* enter_expression, `_ => {}` arm
EnterOtherExpression ==
    /\ pc = "traverse"
    /\ pending # <<>>
    /\ Head(pending).type \notin {"JSXElement", "JSXFragment"}
    /\ pending' = SubExpressions(Head(pending)) \o Tail(pending)
    /\ UNCHANGED <<api, source, userOptions, pc, program, options, context,
                   lowered, emitted, ret, runs>>

\* what a finished call leaves behind
Observed(ret_, emitted_) ==
    [ret |-> ret_, program |-> program, emitted |-> emitted_,
     counter |-> context.counter, lowered |-> lowered]

\* options.unwrap_or_else(TransformOptions::solid_defaults)
unwrap_options == IF userOptions.some THEN userOptions.v ELSE solid_defaults

\* exit_program: borrows helpers, templates and delegates; inserts nothing
ExitProgram ==
    /\ pc = "traverse"
    /\ pending = <<>>
    /\ emitted' = Some([helpers |-> context.helpers,
                        templates |-> context.templates,
                        delegates |-> context.delegates])
    /\ IF api = "transform"
       THEN pc' = "codegen" /\ runs' = runs
       ELSE pc' = "done" /\ runs' = Append(runs, Observed(ret, emitted'))
    /\ UNCHANGED <<api, source, userOptions, program, options, context,
                   pending, lowered, ret>>

\* Codegen::new().with_options(..).build(&program), returned to the caller
CodegenBuild ==
    /\ pc = "codegen"
    /\ ret' = Some(Codegen_build(program,
                                 IF unwrap_options.source_map
                                 THEN Some("input.jsx") ELSE None))
    /\ pc' = "done"
    /\ runs' = Append(runs, Observed(ret', emitted))
    /\ UNCHANGED <<api, source, userOptions, program, options, context,
                   pending, lowered, emitted>>

\* the embedder calls again: same source, same options
CallAgain ==
    /\ pc = "done"
    /\ Len(runs) < MaxRuns
    /\ pc' = "idle"
    /\ UNCHANGED <<api, source, userOptions, program, options, context,
                   pending, lowered, emitted, ret, runs>>

Next ==
    \/ Transform
    \/ TransformDirect
    \/ EnterJSXElement
    \/ EnterJSXFragment
    \/ EnterOtherExpression
    \/ ExitProgram
    \/ CodegenBuild

NextSession == Next \/ CallAgain

Spec == Init /\ [][Next]_vars

SessionSpec == InitSession /\ [][NextSession]_vars

-----------------------------------------------------------------------------
(* Vocabulary of the properties *)

IsJSX(node) == node.type \in {"JSXElement", "JSXFragment"}

\* a JSX expression at, or anywhere below, an expression of the program
RECURSIVE HasJSX(_)
HasJSX(expr) ==
    \/ IsJSX(expr)
    \/ expr.type = "ArrowFunctionExpression" /\ HasJSX(expr.body)

WalkFinished == pc \in {"codegen", "done"}

ParseErrors == Parser_parse(source).errors

IsNative(node) == node.type = "JSXElement" /\ ~is_component(node.name)

IsVoidWithChildren(node) ==
    /\ IsNative(node)
    /\ node.name \in VOID_ELEMENTS
    /\ node.children # <<>>

-----------------------------------------------------------------------------
(* C1: once the Driver has walked the program, no JSX expression remains in *)
(* the program handed to the code generator, and a program that held JSX    *)
(* starts with the import of the helpers.                                   *)

C1_NoJSXAfterWalk ==
    WalkFinished =>
        /\ \A i \in 1..Len(program) : ~HasJSX(program[i])
        /\ lowered # <<>> =>
              /\ program # <<>>
              /\ program[1].type = "ImportDeclaration"

(* C2: the options the caller passes to transform(source, Some(options)) are *)
(* the options the lowering uses; with delegate_events false nothing is      *)
(* registered for delegation.                                                *)

C2_CallerOptionsUsed ==
    (api = "transform" /\ userOptions.some /\ pc # "idle") =>
        /\ options.delegate_events = userOptions.v.delegate_events
        /\ options.delegated_events = userOptions.v.delegated_events
        /\ ~userOptions.v.delegate_events => context.delegates = <<>>

(* C3: transform returns code iff no fatal error occurred: a source with a *)
(* parse error yields no code.                                              *)

C3_CodeIffNoParseError ==
    (api = "transform" /\ pc = "done" /\ source.statements # <<>>) =>
        ((ret.some /\ ret.v.code # <<>>) <=> (ParseErrors = <<>>))

(* C4: lowering a void element that has children is an error: no            *)
(* TransformResult is produced for it.                                      *)

C4_VoidWithChildrenRejected ==
    \A i \in 1..Len(lowered) : ~IsVoidWithChildren(lowered[i].node)

-----------------------------------------------------------------------------
(* Elements and attributes as the properties speak of them *)

\* the elements the element lowering descends to from a root, in document
\* order: the root, then the element children of every non-void element
RECURSIVE LoweredTree(_)
RECURSIVE LoweredTreeAll(_)

LoweredTreeAll(children) ==
    IF children = <<>> THEN <<>>
    ELSE (IF Head(children).type = "JSXElement"
          THEN LoweredTree(Head(children)) ELSE <<>>)
         \o LoweredTreeAll(Tail(children))

LoweredTree(element) ==
    <<element>> \o (IF element.name \in VOID_ELEMENTS THEN <<>>
                    ELSE LoweredTreeAll(element.children))

IsEventAttr(attr) ==
    /\ attr.type = "JSXAttribute"
    /\ attr.name # "ref"
    /\ starts_with(attr.name, "on")

IsRegularAttr(attr) ==
    /\ attr.type = "JSXAttribute"
    /\ attr.name # "ref"
    /\ ~starts_with(attr.name, "on")
    /\ ~starts_with(attr.name, "use:")

HasDynamicValue(attr) ==
    /\ attr.value.some
    /\ attr.value.v.type = "JSXExpressionContainer"
    /\ as_expression(attr.value.v).some
    /\ is_dynamic(as_expression(attr.value.v).v)

HasStaticValue(attr) ==
    \/ ~attr.value.some
    \/ attr.value.v.type = "StringLiteral"
    \/ /\ attr.value.v.type = "JSXExpressionContainer"
       /\ as_expression(attr.value.v).some
       /\ ~is_dynamic(as_expression(attr.value.v).v)

IsDynamicAttr(attr) == IsRegularAttr(attr) /\ HasDynamicValue(attr)
IsStaticAttr(attr) == IsRegularAttr(attr) /\ HasStaticValue(attr)

\* the entries of `lowered` that the element lowering produced
NativeEntries == {i \in 1..Len(lowered) : IsNative(lowered[i].node)}

IsDelegateExpr(e) == Len(e.code) = 4 /\ e.code[2] = ".$$"
IsListenerExpr(e) == e.code[1] = "_addEventListener("
IsEventExpr(e) == IsDelegateExpr(e) \/ IsListenerExpr(e)

\* what an event expression says: how it binds, which event, on which node
EventExprView(e) ==
    IF IsDelegateExpr(e)
    THEN [how |-> "delegate", event |-> e.code[3], elem |-> e.code[1]]
    ELSE [how |-> "listener", event |-> e.code[4], elem |-> e.code[2]]

InDelegationSet(event) ==
    /\ options.delegate_events
    /\ event \in DELEGATED_EVENTS \cup options.delegated_events

\* the event attributes of a tree, in document order, with the binding the
\* delegation rule asks for
RECURSIVE EventsOfAttrs(_)
EventsOfAttrs(attrs) ==
    IF attrs = <<>> THEN <<>>
    ELSE (IF IsEventAttr(Head(attrs))
          THEN <<[how |-> IF InDelegationSet(to_event_name(Head(attrs).name))
                          THEN "delegate" ELSE "listener",
                  event |-> to_event_name(Head(attrs).name)]>>
          ELSE <<>>)
         \o EventsOfAttrs(Tail(attrs))

RECURSIVE EventsOfTree(_)
EventsOfTree(elements) ==
    IF elements = <<>> THEN <<>>
    ELSE EventsOfAttrs(Head(elements).attributes) \o EventsOfTree(Tail(elements))

EventExprsOf(r) ==
    LET evs == SelectSeq(r.exprs, IsEventExpr)
    IN  [i \in 1..Len(evs) |->
            [how |-> EventExprView(evs[i]).how, event |-> EventExprView(evs[i]).event]]

\* every event expression emitted so far by the element lowering
AllEventViews ==
    UNION {{EventExprView(lowered[i].result.exprs[j]) :
               j \in {k \in 1..Len(lowered[i].result.exprs) :
                         IsEventExpr(lowered[i].result.exprs[k])}} :
           i \in NativeEntries}

-----------------------------------------------------------------------------
(* C5: every event attribute of a lowered element yields exactly one        *)
(* expression: a property assignment, with the event registered for         *)
(* delegation, when delegate_events is set and the event is in the built-in *)
(* or user delegation set, and an addEventListener call, with that helper   *)
(* registered, otherwise.  So the delegate set holds only names of the      *)
(* delegation sets and is empty when delegate_events is false.              *)

C5_EventDelegation ==
    /\ \A i \in NativeEntries :
          LET n == lowered[i].node
              r == lowered[i].result
              own == SelectSeq(r.exprs,
                        LAMBDA e : IsEventExpr(e) /\ EventExprView(e).elem = r.id.v)
          IN  /\ EventExprsOf(r) = EventsOfTree(LoweredTree(n))
              /\ Len(own) = Len(EventsOfAttrs(n.attributes))
    /\ \A k \in 1..Len(context.delegates) :
          /\ context.delegates[k] \in DELEGATED_EVENTS \cup options.delegated_events
          /\ \E v \in AllEventViews :
                v.how = "delegate" /\ v.event = context.delegates[k]
    /\ \A v \in AllEventViews :
          /\ v.how = "delegate" => Contains(context.delegates, v.event)
          /\ v.how = "listener" => Contains(context.helpers, "addEventListener")
    /\ Contains(context.helpers, "addEventListener") =>
          \E v \in AllEventViews : v.how = "listener"
    /\ ~options.delegate_events => context.delegates = <<>>

\* a delegated and a directly attached event on one element, under options
\* that add a user event to the delegation set
C5_Witness ==
    /\ options.delegate_events
    /\ options.delegated_events = {"scroll"}
    /\ context.delegates = <<"click", "scroll">>
    /\ \E i \in NativeEntries : Len(EventExprsOf(lowered[i].result)) = 2

-----------------------------------------------------------------------------
(* C6: in a lowered element tree every regular attribute with a dynamic     *)
(* value adds nothing to the template and appears in exactly one            *)
(* DynamicBinding of the root result, with its key and its element's        *)
(* tag_name, is_svg and is_custom_element; a regular attribute with a       *)
(* string, absent or static value adds template text and no binding.        *)

RECURSIVE DynamicsOfTree(_)
DynamicsOfTree(elements) ==
    IF elements = <<>> THEN <<>>
    ELSE LET e == Head(elements)
             dyn == SelectSeq(e.attributes, IsDynamicAttr)
         IN  [i \in 1..Len(dyn) |->
                 [key |-> dyn[i].name, tag_name |-> e.name,
                  is_svg |-> is_svg_element(e.name),
                  is_ce |-> contains_char(e.name, "-")]]
             \o DynamicsOfTree(Tail(elements))

BindingView(d) ==
    [key |-> d.key, tag_name |-> d.tag_name, is_svg |-> d.is_svg, is_ce |-> d.is_ce]

\* the attributes that occur in a tree
AttrsOfTree(tree) ==
    UNION {{tree[k].attributes[a] : a \in 1..Len(tree[k].attributes)} :
           k \in 1..Len(tree)}

\* the element with the attributes in `dropped` removed, at every depth
RECURSIVE Without(_, _)
Without(node, dropped) ==
    IF node.type # "JSXElement" THEN node
    ELSE [node EXCEPT
             !.attributes = SelectSeq(@, LAMBDA a : a \notin dropped),
             !.children = [i \in 1..Len(@) |-> Without(@[i], dropped)]]

TemplateOf(element) ==
    transform_element(element, element.name, TransformInfo_default,
                      BlockContext_new, options).result.template

C6_DynamicStaticSeparation ==
    \A i \in NativeEntries :
        LET n == lowered[i].node
            r == lowered[i].result
            tree == LoweredTree(n)
        IN  /\ [k \in 1..Len(r.dynamics) |-> BindingView(r.dynamics[k])]
                  = DynamicsOfTree(tree)
            /\ r.template =
                  TemplateOf(Without(n, {a \in AttrsOfTree(tree) : IsDynamicAttr(a)}))
            /\ \A a \in AttrsOfTree(tree) :
                  IsStaticAttr(a) => r.template # TemplateOf(Without(n, {a}))

\* a nested element with a dynamic and a static attribute, its binding
\* merged into the root result
C6_Witness ==
    \E i \in NativeEntries :
        LET tree == LoweredTree(lowered[i].node)
        IN  /\ Len(tree) > 1
            /\ \E a \in AttrsOfTree(Tail(tree)) : IsStaticAttr(a)
            /\ Len(lowered[i].result.dynamics) = 1
            /\ lowered[i].result.dynamics[1].tag_name = "span"

-----------------------------------------------------------------------------
(* C7: when the transform ends, the helpers registered in the Block Context *)
(* are exactly the helpers the emitted code uses, template for any template *)
(* and effect for any DynamicBinding included.                              *)

HelperOfPiece(piece) ==
    CASE piece = "_insert(" -> {"insert"}
      [] piece = "_use(" -> {"use"}
      [] piece = "_use(/* ref */, " -> {"use"}
      [] piece = "_spread(" -> {"spread"}
      [] piece = "_addEventListener(" -> {"addEventListener"}
      [] piece = "_createComponent(" -> {"createComponent"}
      [] piece = "_mergeProps(/* spread */, { " -> {"mergeProps"}
      [] piece \in {"_" \o t : t \in BUILT_INS} ->
            {t \in BUILT_INS : piece = "_" \o t}
      [] OTHER -> {}

HelpersOfResult(r) ==
    UNION {HelperOfPiece(r.exprs[j].code[k]) :
              <<j, k>> \in {<<j, k>> \in (1..Len(r.exprs)) \X (1..20) :
                              k <= Len(r.exprs[j].code)}}
    \cup (IF r.template # <<>> THEN {"template"} ELSE {})
    \cup (IF r.dynamics # <<>> THEN {"effect"} ELSE {})

UsedHelpers == UNION {HelpersOfResult(lowered[i].result) : i \in 1..Len(lowered)}

C7_HelperMinimality ==
    emitted.some =>
        {emitted.v.helpers[k] : k \in 1..Len(emitted.v.helpers)} = UsedHelpers

-----------------------------------------------------------------------------
(* C8: on an SVG element a string or static attribute is written to the     *)
(* template under its source key (className stays className); on any other  *)
(* element under its alias (className becomes class).                       *)

HasAliasedStaticAttr(node) ==
    \E a \in 1..Len(node.attributes) :
        /\ IsRegularAttr(node.attributes[a])
        /\ node.attributes[a].name = "className"
        /\ node.attributes[a].value.some
        /\ HasStaticValue(node.attributes[a])

C8_SvgAliasSuppressed ==
    \A i \in NativeEntries :
        HasAliasedStaticAttr(lowered[i].node) =>
            IF lowered[i].result.is_svg
            THEN Contains(lowered[i].result.template, "className")
            ELSE /\ Contains(lowered[i].result.template, "class")
                 /\ ~Contains(lowered[i].result.template, "className")

-----------------------------------------------------------------------------
(* C9: two runs of the transform on the same source with the same options   *)
(* produce the same output, helper order, delegate order and identifier     *)
(* numbering included: every run starts from a fresh Block Context.         *)

WalkNotStarted == pc = "traverse" /\ lowered = <<>> /\ pending = program

C9_Determinism ==
    /\ \A i, j \in 1..Len(runs) : runs[i] = runs[j]
    /\ WalkNotStarted => context = BlockContext_new

\* a second run has ended after a first one that handed out identifiers and
\* registered a helper and a delegated event
C9_Witness ==
    /\ Len(runs) = 2
    /\ runs[1].counter > 0
    /\ runs[1].emitted.v.helpers # <<>>
    /\ runs[1].emitted.v.delegates # <<>>

-----------------------------------------------------------------------------
(* C10: the transform always completes: every step of a call leaves fewer   *)
(* steps to take and no call stops before it is done; the lowering visits   *)
(* each JSX element at most once (it hands out at most one identifier per   *)
(* element); a source that is one JSX expression yields a non-empty code    *)
(* string.                                                                  *)

RECURSIVE CountElements(_)
RECURSIVE CountElementsAll(_)

CountElementsAll(nodes) ==
    IF nodes = <<>> THEN 0
    ELSE CountElements(Head(nodes)) + CountElementsAll(Tail(nodes))

\* the JSX elements at or below a node of the AST
CountElements(node) ==
    CASE node.type = "JSXElement" ->
            1 + CountElementsAll(node.attributes) + CountElementsAll(node.children)
      [] node.type = "JSXFragment" -> CountElementsAll(node.children)
      [] node.type \in {"JSXExpressionContainer", "JSXSpreadChild"} ->
            CountElements(node.expression)
      [] node.type = "JSXAttribute" ->
            IF node.value.some THEN CountElements(node.value.v) ELSE 0
      [] node.type = "ArrowFunctionExpression" -> CountElements(node.body)
      [] OTHER -> 0

IsOneJSXExpression ==
    /\ Len(source.statements) = 1
    /\ IsJSX(source.statements[1])
    /\ source.error = "none"

\* the Expression nodes the walk has still to enter
RECURSIVE ExpressionsLeft(_)
ExpressionsLeft(exprs) ==
    IF exprs = <<>> THEN 0
    ELSE 1 + ExpressionsLeft(SubExpressions(Head(exprs)))
           + ExpressionsLeft(Tail(exprs))

\* the steps a call has still to take
StepsLeft ==
    CASE pc = "idle" -> ExpressionsLeft(Parser_parse(source).program) + 3
      [] pc = "traverse" -> ExpressionsLeft(pending) + 2
      [] pc = "codegen" -> 1
      [] pc = "done" -> 0

\* some step of the call can be taken
CanStep ==
    \/ pc = "idle" /\ api = "transform"
    \/ pc = "idle" /\ api = "SolidTransform" /\ userOptions.some
    \/ pc = "traverse"
    \/ pc = "codegen"

C10_Completes ==
    /\ [][StepsLeft' < StepsLeft]_vars
    /\ [](pc # "done" => CanStep)
    /\ [](context.counter <= CountElementsAll(program))
    /\ []((pc = "done" /\ api = "transform" /\ IsOneJSXExpression) =>
             (ret.some /\ ret.v.code # <<>>))

\* the call on <For each={items}>{item => <div>{item}</div>}</For> has
\* returned, the element inside the callback lowered on the way
C10_Witness ==
    /\ pc = "done"
    /\ api = "transform"
    /\ IsOneJSXExpression
    /\ source.statements[1].type = "JSXElement"
    /\ source.statements[1].name = "For"
    /\ Len(lowered) = 2
    /\ context.counter = 1
    /\ ret.some
    /\ ret.v.code # <<>>

-----------------------------------------------------------------------------
(* C11: in the result of every lowered native element the owner node id of  *)
(* each DynamicBinding is the id of that result or an identifier of its     *)
(* declarations list, which the bindings of descendants are merged with.    *)

\* the identifiers a result declares
DeclaredIds(r) == {r.declarations[k].name : k \in 1..Len(r.declarations)}

C11_BindingOwnersDeclared ==
    \A i \in NativeEntries :
        LET r == lowered[i].result
        IN  \A k \in 1..Len(r.dynamics) :
                \/ r.id.some /\ r.dynamics[k].elem = r.id.v
                \/ r.dynamics[k].elem \in DeclaredIds(r)

-----------------------------------------------------------------------------
(* C12: a dynamic expression child with a static sibling (text or element)  *)
(* both before and after it leaves the marker <!> in the template of its    *)
(* element; a leading or trailing dynamic child leaves none.  So a lowered  *)
(* tree's template holds one marker for each such child, and none besides.  *)

IsDynamicChild(c) ==
    /\ c.type = "JSXExpressionContainer"
    /\ as_expression(c).some
    /\ is_dynamic(as_expression(c).v)

IsStaticSibling(c) ==
    \/ c.type = "JSXElement"
    \/ c.type = "JSXText" /\ trim_whitespace(c.value) # <<>>

\* the positions of the children of an element that call for a marker
MarkerPositions(element) ==
    {j \in 2..(Len(element.children) - 1) :
        /\ IsDynamicChild(element.children[j])
        /\ IsStaticSibling(element.children[j - 1])
        /\ IsStaticSibling(element.children[j + 1])}

RECURSIVE MarkersOfTree(_)
MarkersOfTree(elements) ==
    IF elements = <<>> THEN 0
    ELSE Cardinality(MarkerPositions(Head(elements)))
         + MarkersOfTree(Tail(elements))

MarkersIn(template) == Len(SelectSeq(template, LAMBDA piece : piece = "<!>"))

C12_MarkerBetweenStatics ==
    \A i \in NativeEntries :
        MarkersIn(lowered[i].result.template)
            = MarkersOfTree(LoweredTree(lowered[i].node))

-----------------------------------------------------------------------------
(* C13: an element whose tag is a component is lowered by the component     *)
(* lowering at every depth: below a native element it yields a              *)
(* createComponent call, and its tag is never an HTML tag of a template.    *)

\* the component elements met below a native root
ComponentsBelow(root) ==
    SelectSeq(LoweredTree(root), LAMBDA e : is_component(e.name))

IsTagOfTemplate(template, tag) ==
    \E k \in 1..(Len(template) - 1) :
        template[k] \in {"<", "</"} /\ template[k + 1] = tag

IsCreateComponentOf(e, tag) ==
    Len(e.code) >= 2 /\ e.code[1] = "_createComponent(" /\ e.code[2] = tag

C13_ComponentAtEveryDepth ==
    \A i \in NativeEntries :
        LET r == lowered[i].result
            comps == ComponentsBelow(lowered[i].node)
        IN  \A k \in 1..Len(comps) :
                /\ ~IsTagOfTemplate(r.template, comps[k].name)
                /\ \E j \in 1..Len(r.exprs) :
                      IsCreateComponentOf(r.exprs[j], comps[k].name)

-----------------------------------------------------------------------------
(* C14: when an attribute key occurs more than once on a native element     *)
(* only its last occurrence takes effect: the result is the result of the   *)
(* element with the earlier occurrences removed, in template text, in       *)
(* DynamicBindings and in expressions.                                      *)

\* the attributes that are not followed by an attribute of the same key
RECURSIVE LastOccurrences(_)
LastOccurrences(attrs) ==
    IF attrs = <<>> THEN <<>>
    ELSE LET a == Head(attrs)
             repeated ==
                 /\ a.type = "JSXAttribute"
                 /\ \E j \in 2..Len(attrs) :
                       /\ attrs[j].type = "JSXAttribute"
                       /\ attrs[j].name = a.name
         IN  (IF repeated THEN <<>> ELSE <<a>>) \o LastOccurrences(Tail(attrs))

RECURSIVE WithoutEarlier(_)
WithoutEarlier(node) ==
    IF node.type # "JSXElement" THEN node
    ELSE [node EXCEPT
             !.attributes = LastOccurrences(@),
             !.children = [i \in 1..Len(@) |-> WithoutEarlier(@[i])]]

HasRepeatedKey(element) ==
    LastOccurrences(element.attributes) # element.attributes

\* the result of the element lowering, started on a fresh Block Context
ResultOf(element) ==
    transform_element(element, element.name, TransformInfo_default,
                      BlockContext_new, options).result

C14_LastOccurrenceWins ==
    \A i \in NativeEntries :
        LET r == lowered[i].result
            last == ResultOf(WithoutEarlier(lowered[i].node))
        IN  /\ r.template = last.template
            /\ [k \in 1..Len(r.dynamics) |-> BindingView(r.dynamics[k])]
                  = [k \in 1..Len(last.dynamics) |-> BindingView(last.dynamics[k])]
            /\ Len(r.exprs) = Len(last.exprs)

-----------------------------------------------------------------------------
(* C15: the prop descriptor of a user component keeps the order of the      *)
(* source: properties, getters and spread arguments follow one another as   *)
(* the attributes do; mergeProps is used exactly when an attribute is a     *)
(* spread.                                                                  *)

IsUserComponent(node) ==
    /\ node.type = "JSXElement"
    /\ is_component(node.name)
    /\ ~is_built_in(node.name)

ComponentEntries == {i \in 1..Len(lowered) : IsUserComponent(lowered[i].node)}

\* the piece of the call that carries the spread argument
SpreadPiece == "_mergeProps(/* spread */, { "

HasSpread(element) ==
    \E k \in 1..Len(element.attributes) :
        element.attributes[k].type = "JSXSpreadAttribute"

\* the attributes of the source in order: a key, or the spread
SourceOrder(element) ==
    [k \in 1..Len(element.attributes) |->
        IF element.attributes[k].type = "JSXSpreadAttribute"
        THEN SpreadPiece
        ELSE element.attributes[k].name]

\* the keys and spreads of a createComponent call, in the order written
CallOrder(code, element) ==
    SelectSeq(code,
              LAMBDA piece :
                  \/ piece = SpreadPiece
                  \/ \E k \in 1..Len(element.attributes) :
                        /\ element.attributes[k].type = "JSXAttribute"
                        /\ element.attributes[k].name = piece)

C15_PropOrderPreserved ==
    \A i \in ComponentEntries :
        LET n == lowered[i].node
            code == lowered[i].result.exprs[1].code
        IN  /\ CallOrder(SubSeq(code, 3, Len(code)), n) = SourceOrder(n)
            /\ Contains(code, SpreadPiece) <=> HasSpread(n)
            /\ HasSpread(n) => Contains(context.helpers, "mergeProps")

-----------------------------------------------------------------------------
(* C16: template_with_closing_tags of a lowered native element is template  *)
(* with closing tags appended: it holds every attribute text and every      *)
(* child contribution of template, in the same order, and the two differ    *)
(* by closing tags at most.                                                 *)

\* a template with its closing tags taken out
RECURSIVE WithoutClosingTags(_)
WithoutClosingTags(template) ==
    IF template = <<>> THEN <<>>
    ELSE IF Head(template) = "</" /\ Len(template) >= 3
    THEN WithoutClosingTags(SubSeq(template, 4, Len(template)))
    ELSE <<Head(template)>> \o WithoutClosingTags(Tail(template))

C16_ClosingTagsOnly ==
    \A i \in NativeEntries :
        WithoutClosingTags(lowered[i].result.template_with_closing_tags)
            = WithoutClosingTags(lowered[i].result.template)

-----------------------------------------------------------------------------
(* C17: within one compilation unit the element identifiers handed out are  *)
(* pairwise distinct, across the top-level JSX expressions and at every     *)
(* depth: the n-th element lowered has the n-th identifier, el$n, and the   *)
(* Block Context has counted exactly the elements lowered; the identifier   *)
(* named by each DynamicBinding and each expression emitted for an          *)
(* attribute is the identifier of the element that carries the attribute.   *)

\* the elements the element lowering is called on below a lowered node, in
\* the order of the calls
RECURSIVE ElementsLowered(_)
ElementsLowered(node) ==
    CASE node.type = "JSXElement" ->
            IF is_component(node.name) THEN <<>> ELSE LoweredTree(node)
      [] node.type = "JSXFragment" ->
            Concat([k \in 1..Len(node.children) |->
                       ElementsLowered(node.children[k])])
      [] OTHER -> <<>>

\* the number of elements lowered by the first i entries of `lowered`
RECURSIVE LoweredBefore(_)
LoweredBefore(i) ==
    IF i = 0 THEN 0
    ELSE Len(ElementsLowered(lowered[i].node)) + LoweredBefore(i - 1)

ElementId(n) == "el$" \o ToString(n)

\* an attribute the lowering answers with an expression
AttrEmitsExpr(attr) ==
    \/ attr.type = "JSXSpreadAttribute"
    \/ /\ attr.type = "JSXAttribute"
       /\ \/ /\ attr.name = "ref"
             /\ attr.value.some
             /\ attr.value.v.type = "JSXExpressionContainer"
          \/ attr.name # "ref" /\ starts_with(attr.name, "on")
          \/ /\ attr.name # "ref"
             /\ ~starts_with(attr.name, "on")
             /\ starts_with(attr.name, "use:")

IsInsertExpr(e) == e.code[1] = "_insert("

\* the identifier an attribute expression names
ExprOwner(e) ==
    CASE IsDelegateExpr(e) -> e.code[1]
      [] e.code[1] = "_use(" -> e.code[4]
      [] OTHER -> e.code[2]

\* for each element of a tree its identifier, once per attribute of the
\* element that is in `owned`, the first element having the number `first`
OwnersOf(tree, first, owned) ==
    Concat([k \in 1..Len(tree) |->
               [a \in 1..Len(SelectSeq(tree[k].attributes,
                                       LAMBDA x : x \in owned)) |->
                   ElementId(first + k - 1)]])

C17_DistinctElementIds ==
    /\ context.counter = LoweredBefore(Len(lowered))
    /\ \A i \in 1..Len(lowered) :
          LET r == lowered[i].result
              tree == ElementsLowered(lowered[i].node)
              first == LoweredBefore(i - 1) + 1
              attrExprs == SelectSeq(r.exprs, LAMBDA e : ~IsInsertExpr(e))
          IN  /\ IsNative(lowered[i].node) => r.id = Some(ElementId(first))
              /\ IsNative(lowered[i].node) =>
                    /\ [k \in 1..Len(r.dynamics) |-> r.dynamics[k].elem]
                          = OwnersOf(tree, first,
                                     {a \in AttrsOfTree(tree) : IsDynamicAttr(a)})
                    /\ [k \in 1..Len(attrExprs) |-> ExprOwner(attrExprs[k])]
                          = OwnersOf(tree, first,
                                     {a \in AttrsOfTree(tree) : AttrEmitsExpr(a)})
    /\ \A i, j \in NativeEntries :
          i # j => lowered[i].result.id # lowered[j].result.id

\* two nested elements with a binding each below a first root, and a second
\* root lowered after them in the same program
C17_Witness ==
    /\ Len(lowered) = 2
    /\ IsNative(lowered[1].node)
    /\ Len(ElementsLowered(lowered[1].node)) = 3
    /\ Len(lowered[1].result.dynamics) = 2
    /\ lowered[1].result.dynamics[1].elem = "el$2"
    /\ lowered[1].result.dynamics[2].elem = "el$3"
    /\ lowered[2].result.id = Some("el$4")
    /\ context.counter = 4

====
